---- MODULE Spec2Model ----
(***************************************************************************)
(* Model of pocketcast_downloader.py: the metadata reconciliation of       *)
(* PodcastDownloader.set_metadata, the streaming download of               *)
(* PodcastDownloader.download_episode, and the batch loop of main.         *)
(*                                                                         *)
(* Text is modelled character by character: a Python str is a sequence of  *)
(* one-character strings, so len(), lower(), "in" and replace() are        *)
(* computed as the code computes them.                                     *)
(***************************************************************************)
EXTENDS Integers, Sequences, FiniteSets, TLC

VARIABLES
    mfile,      \* set_metadata harness: the audio file [kind, tags] on disk
    mep,        \* set_metadata harness: the episode record passed in
    mruns,      \* set_metadata harness: number of set_metadata calls so far
    mfirst,     \* set_metadata harness: the file before the first call
    mprev,      \* set_metadata harness: the file before the latest call
    mlast,      \* set_metadata harness: what the latest call did
    pc,         \* main: position ("init", "start", "loop", "done", "exit0", "exit1", "crashed")
    run,        \* main: number of the current invocation of the script
    args,       \* main: the parsed command line
    starred,    \* the episode records the service returns for /user/starred
    episodes,   \* main: the episodes to process (after the year filter)
    idx,        \* main: 1-based position of the loop in episodes
    successful, \* main: the successful counter
    failed,     \* main: the failed counter
    attempts,   \* main: the episodes processed so far in this run, with their verdicts
    disk,       \* the audio files on disk, by path
    dirs,       \* the directories on disk
    effects,    \* what this run did: API calls, media GETs, filesystem writes, calls
    lastCall    \* the latest loop iteration: what download_episode (or the dry run) did

mvars == <<mfile, mep, mruns, mfirst, mprev, mlast>>

dvars == <<pc, run, args, starred, episodes, idx, successful, failed, attempts,
           disk, dirs, effects, lastCall>>

vars == <<mfile, mep, mruns, mfirst, mprev, mlast,
          pc, run, args, starred, episodes, idx, successful, failed, attempts,
          disk, dirs, effects, lastCall>>

(***************************************************************************)
(* Bounds of the model.                                                    *)
(***************************************************************************)
\* Number of "!" characters appended to a base title to build the titles.
MaxPad == 1
\* Number of consecutive set_metadata calls on one file.
MaxRuns == 2
\* Length of the starred-episode list.
MaxEpisodes == 2
\* Number of invocations of the script on the same disk.
MaxInvocations == 2

(***************************************************************************)
(* Text.                                                                   *)
(***************************************************************************)
EmptyStr == << >>

\* Optional values (dict.get, a list of frames): << >> is absent, <<v>> present.
Absent == << >>
Some(v) == <<v>>

UpperToLower ==
    [A |-> "a", B |-> "b", C |-> "c", D |-> "d", E |-> "e", F |-> "f",
     G |-> "g", H |-> "h", I |-> "i", J |-> "j", K |-> "k", L |-> "l",
     M |-> "m", N |-> "n", O |-> "o", P |-> "p", Q |-> "q", R |-> "r",
     S |-> "s", T |-> "t", U |-> "u", V |-> "v", W |-> "w", X |-> "x",
     Y |-> "y", Z |-> "z"]

\* str.lower(), on ASCII text
Lower(s) ==
    [i \in 1..Len(s) |->
        IF s[i] \in DOMAIN UpperToLower THEN UpperToLower[s[i]] ELSE s[i]]

\* Python's "needle in haystack" on str
Contains(haystack, needle) ==
    \E k \in 0..(Len(haystack) - Len(needle)) :
        SubSeq(haystack, k + 1, k + Len(needle)) = needle

\* dict.get(key, default)
Get(opt, default) == IF opt = Absent THEN default ELSE opt[1]

sIntro == <<"I","n","t","r","o">>
sSeasonFinale == <<"S","e","a","s","o","n"," ","F","i","n","a","l","e",".">>
sTechWeekly12 == <<"T","e","c","h"," ","W","e","e","k","l","y"," ","1","2">>
sTech == <<"t","e","c","h">>
sPodcast == <<"P","o","d","c","a","s","t">>
sSep == <<" ","-"," ">>
sOther == <<"K","e","p","t">>
s2023 == <<"2","0","2","3">>
sPubZ == <<"2","0","2","3","-","0","6","-","0","1","T","0","0",":","0","0",":","0","0","Z">>
sPubBad == <<"s","o","o","n">>

(***************************************************************************)
(* datetime.fromisoformat(published.replace("Z", "+00:00")).year           *)
(***************************************************************************)
Digits == <<"0","1","2","3","4","5","6","7","8","9">>

IsDigit(c) == \E d \in 1..10 : Digits[d] = c

DigitVal(c) == (CHOOSE d \in 1..10 : Digits[d] = c) - 1

\* str.replace("Z", "+00:00")
RECURSIVE ReplaceZ(_)
ReplaceZ(s) ==
    IF s = << >> THEN << >>
    ELSE (IF Head(s) = "Z" THEN <<"+","0","0",":","0","0">> ELSE <<Head(s)>>)
         \o ReplaceZ(Tail(s))

TwoDigits(s, i) == IsDigit(s[i]) /\ IsDigit(s[i + 1])

TwoVal(s, i) == 10 * DigitVal(s[i]) + DigitVal(s[i + 1])

\* The date part YYYY-MM-DD that fromisoformat requires.
IsoDateOk(s) ==
    /\ Len(s) >= 10
    /\ \A i \in 1..4 : IsDigit(s[i])
    /\ s[5] = "-" /\ TwoDigits(s, 6) /\ s[8] = "-" /\ TwoDigits(s, 9)
    /\ TwoVal(s, 1) * 100 + TwoVal(s, 3) >= 1
    /\ TwoVal(s, 6) \in 1..12
    /\ TwoVal(s, 9) \in 1..31

\* The optional time part: a separator, HH:MM:SS, and an optional +HH:MM.
IsoTimeOk(s) ==
    \/ Len(s) = 10
    \/ /\ Len(s) \in {19, 25}
       /\ TwoDigits(s, 12) /\ s[14] = ":" /\ TwoDigits(s, 15)
       /\ s[17] = ":" /\ TwoDigits(s, 18)
       /\ TwoVal(s, 12) <= 23 /\ TwoVal(s, 15) <= 59 /\ TwoVal(s, 18) <= 59
       /\ Len(s) = 25 =>
            /\ s[20] \in {"+", "-"}
            /\ TwoDigits(s, 21) /\ s[23] = ":" /\ TwoDigits(s, 24)
            /\ TwoVal(s, 21) <= 23 /\ TwoVal(s, 24) <= 59

\* str(int)
RECURSIVE IntToStr(_)
IntToStr(n) ==
    IF n < 10 THEN <<Digits[n + 1]>>
    ELSE IntToStr(n \div 10) \o <<Digits[(n % 10) + 1]>>

\* pub_date.year, or 0 when published is empty or fromisoformat raises
YearOf(published) ==
    LET s == ReplaceZ(published)
    IN  IF published # EmptyStr /\ IsoDateOk(s) /\ IsoTimeOk(s)
        THEN TwoVal(s, 1) * 100 + TwoVal(s, 3)
        ELSE 0

\* year = "" unless published parses, then str(pub_date.year)
ParseYear(published) ==
    IF YearOf(published) = 0 THEN EmptyStr ELSE IntToStr(YearOf(published))

(***************************************************************************)
(* set_metadata                                                            *)
(***************************************************************************)
\* The length below which a title counts as short.
ShortTitleLen == 15

\* Mutant: the podcast name is looked for without lower-casing.
NeedsEnhancement_CaseSensitive(t, podcast_title) ==
    Len(t) < 15 /\ ~Contains(t, podcast_title)

\* needs_enhancement / should_update: short, and the podcast name is not in it
NeedsEnhancement(t, podcast_title) ==
    Len(t) < ShortTitleLen /\ ~Contains(Lower(t), Lower(podcast_title))

\* Mutant: the "if title and podcast_title" guard is dropped.
ComputedTitle_NoEmptyGuard(title, podcast_title) ==
    IF Len(title) < 15 /\ ~Contains(Lower(title), Lower(podcast_title))
    THEN podcast_title \o sSep \o title
    ELSE title

\* title as computed from the episode record before any tag is read
ComputedTitle(title, podcast_title) ==
    IF title # EmptyStr /\ podcast_title # EmptyStr
       /\ NeedsEnhancement(title, podcast_title)
    THEN podcast_title \o sSep \o title
    ELSE title

\* Mutant: any short existing title is updated, named or not.
ShouldUpdateTitle_NoNameTest(frames, podcast_title) ==
    /\ frames # Absent
    /\ frames[1] # EmptyStr
    /\ Len(frames[1]) < 15

\* should_update_title: an existing, non-empty title that needs enhancement
ShouldUpdateTitle(frames, podcast_title) ==
    /\ frames # Absent
    /\ frames[1] # EmptyStr
    /\ NeedsEnhancement(frames[1], podcast_title)

\* Mutant: the replacement is built from the existing tag value.
TitleStep_EnhanceExisting(st, title, podcast_title) ==
    IF st.tags.Title = Absent
    THEN [tags |-> [st.tags EXCEPT !.Title = Some(title)],
          added |-> Append(st.added, "Title")]
    ELSE IF st.tags.Title[1] # EmptyStr
            /\ Len(st.tags.Title[1]) < 15
            /\ ~Contains(Lower(st.tags.Title[1]), Lower(podcast_title))
    THEN [tags |-> [st.tags EXCEPT
                      !.Title = Some(podcast_title \o sSep \o st.tags.Title[1])],
          added |-> Append(st.added, "Title (enhanced)")]
    ELSE st

\* The title step: add when absent, replace when should_update_title.
TitleStep(st, title, podcast_title) ==
    IF st.tags.Title = Absent
    THEN [tags |-> [st.tags EXCEPT !.Title = Some(title)],
          added |-> Append(st.added, "Title")]
    ELSE IF ShouldUpdateTitle(st.tags.Title, podcast_title)
    THEN [tags |-> [st.tags EXCEPT !.Title = Some(title)],
          added |-> Append(st.added, "Title (enhanced)")]
    ELSE st

\* Mutant: the artist is written whether or not one is present.
ArtistStep_Overwrite(st, podcast_title) ==
    [tags |-> [st.tags EXCEPT !.Artist = Some(podcast_title)],
     added |-> Append(st.added, "Artist")]

ArtistStep(st, podcast_title) ==
    IF st.tags.Artist = Absent
    THEN [tags |-> [st.tags EXCEPT !.Artist = Some(podcast_title)],
          added |-> Append(st.added, "Artist")]
    ELSE st

AlbumStep(st, podcast_title) ==
    IF st.tags.Album = Absent
    THEN [tags |-> [st.tags EXCEPT !.Album = Some(podcast_title)],
          added |-> Append(st.added, "Album")]
    ELSE st

YearStep(st, year) ==
    IF year # EmptyStr /\ st.tags.Year = Absent
    THEN [tags |-> [st.tags EXCEPT !.Year = Some(year)],
          added |-> Append(st.added, "Year")]
    ELSE st

GenreStep(st) ==
    IF st.tags.Genre = Absent
    THEN [tags |-> [st.tags EXCEPT !.Genre = Some(sPodcast)],
          added |-> Append(st.added, "Genre")]
    ELSE st

\* isinstance(audio, MP3): ID3 frames TIT2, TPE1, TALB, TDRC, TCON
Mp3Branch(tags, title, podcast_title, year) ==
    GenreStep(YearStep(AlbumStep(ArtistStep(
        TitleStep([tags |-> tags, added |-> << >>], title, podcast_title),
        podcast_title), podcast_title), year))

\* isinstance(audio, MP4): atoms (c)nam, (c)ART, (c)alb, (c)day, (c)gen
Mp4Branch(tags, title, podcast_title, year) ==
    GenreStep(YearStep(AlbumStep(ArtistStep(
        TitleStep([tags |-> tags, added |-> << >>], title, podcast_title),
        podcast_title), podcast_title), year))

\* Mutant: save() is called whether or not a tag was added.
SaveCount_Always(added) == 1

\* if tags_added: audio.save()
SaveCount(added) == IF added # << >> THEN 1 ELSE 0

\* if tags_added: save and report the tags added, else report that all exist
SaveAndReport(file, st) ==
    [file |-> IF SaveCount(st.added) > 0
              THEN [file EXCEPT !.tags = st.tags] ELSE file,
     saves |-> SaveCount(st.added),
     added |-> st.added,
     msg |-> IF st.added # << >> THEN "added" ELSE "exist"]

\* The tag steps of the branch that matches the container; no branch, and no
\* tag step, for any other container.
Branches(file, title, podcast_title, year) ==
    IF file.kind = "MP3"
    THEN Mp3Branch(file.tags, title, podcast_title, year)
    ELSE IF file.kind = "MP4"
    THEN Mp4Branch(file.tags, title, podcast_title, year)
    ELSE [tags |-> file.tags, added |-> << >>]

\* The whole call: the file afterwards, the number of save() calls, the
\* tags_added list and the message printed. kind "NONE" is a file for which
\* MutagenFile returns None.
SetMetadata(file, episode) ==
    IF file.kind = "NONE"
    THEN [file |-> file, saves |-> 0, added |-> << >>, msg |-> "none"]
    ELSE SaveAndReport(file,
            Branches(file,
                     ComputedTitle(Get(episode.title, EmptyStr),
                                   Get(episode.podcastTitle, EmptyStr)),
                     Get(episode.podcastTitle, EmptyStr),
                     ParseYear(Get(episode.published, EmptyStr))))

(***************************************************************************)
(* sanitize_filename                                                       *)
(***************************************************************************)
\* str.replace(old, new) for a one-character old
RECURSIVE Replace(_, _, _)
Replace(s, old, new) ==
    IF s = << >> THEN << >>
    ELSE (IF Head(s) = old THEN new ELSE <<Head(s)>>) \o Replace(Tail(s), old, new)

InvalidChars == <<"<", ">", "\"", "/", "\\", "?", "*">>

\* for char in invalid_chars: filename = filename.replace(char, "")
RECURSIVE RemoveAll(_, _)
RemoveAll(s, chars) ==
    IF chars = << >> THEN s
    ELSE RemoveAll(Replace(s, Head(chars), << >>), Tail(chars))

IsSpace(c) == c \in {" ", "\t", "\n"}

RECURSIVE DropSpaces(_)
DropSpaces(s) ==
    IF s # << >> /\ IsSpace(Head(s)) THEN DropSpaces(Tail(s)) ELSE s

\* " ".join(filename.split()): runs of whitespace become one space, none at
\* either end
RECURSIVE JoinSplit(_, _)
JoinSplit(s, started) ==
    IF s = << >> THEN << >>
    ELSE IF IsSpace(Head(s))
    THEN IF DropSpaces(s) = << >> THEN << >>
         ELSE (IF started THEN <<" ">> ELSE << >>)
              \o JoinSplit(DropSpaces(s), started)
    ELSE <<Head(s)>> \o JoinSplit(Tail(s), TRUE)

sanitize_filename(filename) ==
    JoinSplit(RemoveAll(Replace(Replace(filename, "|", <<"-">>), ":", <<" ", "-">>),
                        InvalidChars), FALSE)

(***************************************************************************)
(* The destination path of download_episode                                *)
(***************************************************************************)
\* s.split(sep)[-1]
RECURSIVE AfterLast(_, _)
AfterLast(s, sep) ==
    IF \E i \in 1..Len(s) : s[i] = sep
    THEN AfterLast(Tail(s), sep)
    ELSE s

\* s.split(sep)[0]
RECURSIVE BeforeFirst(_, _)
BeforeFirst(s, sep) ==
    IF s = << >> \/ Head(s) = sep THEN << >>
    ELSE <<Head(s)>> \o BeforeFirst(Tail(s), sep)

sMp3Ext == <<".", "m", "p", "3">>

\* ext = ".mp3", or what follows the last "." of the url up to a "?"
InferExt(url) ==
    IF Contains(AfterLast(url, "/"), <<".">>)
    THEN <<".">> \o BeforeFirst(AfterLast(url, "."), "?")
    ELSE sMp3Ext

\* pathlib: base / part (an empty part names base itself, and "." as base
\* is dropped in front of a part)
PathJoin(base, part) ==
    IF part = << >> THEN base
    ELSE IF base = <<".">> THEN part
    ELSE IF base = <<"/">> THEN base \o part
    ELSE base \o <<"/">> \o part

sUnknown == <<"U","n","k","n","o","w","n">>
sUnknownPodcast == sUnknown \o <<" ","P","o","d","c","a","s","t">>

\* podcast_dir of download_episode when organize_by_podcast
PodcastDir(download_dir, episode) ==
    PathJoin(download_dir,
             sanitize_filename(Get(episode.podcastTitle, sUnknownPodcast)))

\* filename of download_episode
FileName(episode) ==
    sanitize_filename(Get(episode.title, sUnknown)) \o InferExt(episode.url[1])

\* filepath of download_episode
FilePath(download_dir, episode, organize_by_podcast) ==
    IF organize_by_podcast
    THEN PathJoin(PodcastDir(download_dir, episode), FileName(episode))
    ELSE PathJoin(download_dir, FileName(episode))


\* Path(download_dir): pathlib drops empty and "." components and a trailing "/"
RECURSIVE SplitBy(_, _)
SplitBy(s, sep) ==
    IF \E i \in 1..Len(s) : s[i] = sep
    THEN <<BeforeFirst(s, sep)>>
         \o SplitBy(SubSeq(s, Len(BeforeFirst(s, sep)) + 2, Len(s)), sep)
    ELSE <<s>>

RECURSIVE JoinParts(_)
JoinParts(parts) ==
    IF parts = << >> THEN << >>
    ELSE IF Len(parts) = 1 THEN parts[1]
    ELSE parts[1] \o <<"/">> \o JoinParts(Tail(parts))

PathOf(text) ==
    LET parts == SelectSeq(SplitBy(text, "/"), LAMBDA c : c # << >> /\ c # <<".">>)
        joined == JoinParts(parts)
        two == /\ Len(text) >= 2 /\ text[1] = "/" /\ text[2] = "/"
               /\ (Len(text) = 2 \/ text[3] # "/")
    IN  IF two THEN <<"/", "/">> \o joined
        ELSE IF text # << >> /\ Head(text) = "/" THEN <<"/">> \o joined
        ELSE IF joined = << >> THEN <<".">>
        ELSE joined

(***************************************************************************)
(* download_episode                                                        *)
(***************************************************************************)
sM4aExt == <<".", "m", "4", "a">>

NoTags == [Title |-> Absent, Artist |-> Absent, Album |-> Absent,
           Year |-> Absent, Genre |-> Absent]

\* The audio the media server sends for a url: an MP3 whose publisher set a
\* short title, an untagged M4A, or another container.
ServedFile(url) ==
    IF InferExt(url) = sMp3Ext
    THEN [complete |-> TRUE, kind |-> "MP3",
          tags |-> [NoTags EXCEPT !.Title = Some(sIntro)]]
    ELSE IF InferExt(url) = sM4aExt
    THEN [complete |-> TRUE, kind |-> "MP4", tags |-> NoTags]
    ELSE [complete |-> TRUE, kind |-> "OTHER", tags |-> NoTags]

\* What open(filepath, "wb") and the chunk loop leave behind when the stream
\* or a write fails: a truncated file, whose tag header mutagen may or may
\* not still be able to read.
TruncatedFile(url, readable) ==
    [ServedFile(url) EXCEPT !.complete = FALSE,
                            !.kind = IF readable THEN @ ELSE "NONE"]

\* The points at which the fetch of download_episode can end.
FetchOutcomes ==
    {"ok", "network_error", "http_error", "stream_error", "write_error"}

NoFetch ==
    [path |-> << >>, mode |-> "none", existed |-> FALSE, onPartial |-> FALSE,
     gets |-> 0, wrote |-> FALSE, metaCalls |-> 0, metaSawFile |-> FALSE,
     saves |-> 0, failure |-> "none", result |-> FALSE, raised |-> FALSE]

\* What download_episode has done once set_metadata (result m) has run on
\* the file at path.
Tagged(d, call, path, m) ==
    [disk |-> (path :> m.file) @@ d,
     call |-> [call EXCEPT !.metaCalls = @ + 1,
                           !.metaSawFile = call.existed \/ call.wrote,
                           !.saves = m.saves, !.result = TRUE]]

\* Mutant: an existing file is reported and skipped without set_metadata.
SkipExisting_NoMetadata(d, path, episode) ==
    [disk |-> d,
     call |-> [NoFetch EXCEPT !.path = path, !.mode = "real", !.existed = TRUE,
                              !.onPartial = ~d[path].complete,
                              !.result = TRUE]]

\* if filepath.exists(): set_metadata on the file there, return True
SkipExisting(d, path, episode) ==
    Tagged(d,
           [NoFetch EXCEPT !.path = path, !.mode = "real", !.existed = TRUE,
                           !.onPartial = ~d[path].complete],
           path,
           SetMetadata(d[path], episode))

\* requests.get ... set_metadata: the fetch of a file that is not there yet.
\* raised marks an exception on its way out of the try block.
FetchNew(d, path, episode, outcome, readable) ==
    IF outcome \in {"network_error", "http_error"}
    THEN [disk |-> d,
          call |-> [NoFetch EXCEPT !.path = path, !.mode = "real", !.gets = 1,
                                   !.failure = outcome, !.raised = TRUE]]
    ELSE IF outcome \in {"stream_error", "write_error"}
    THEN [disk |-> (path :> TruncatedFile(episode.url[1], readable)) @@ d,
          call |-> [NoFetch EXCEPT !.path = path, !.mode = "real", !.gets = 1,
                                   !.wrote = TRUE,
                                   !.failure = outcome, !.raised = TRUE]]
    ELSE Tagged(d,
                [NoFetch EXCEPT !.path = path, !.mode = "real", !.gets = 1,
                                !.wrote = TRUE],
                path,
                SetMetadata(ServedFile(episode.url[1]), episode))

\* Mutant: the exception leaves download_episode.
CatchException_Propagate(call) == call

\* except Exception: print, return False
CatchException(call) ==
    IF call.raised THEN [call EXCEPT !.raised = FALSE, !.result = FALSE] ELSE call

\* if filepath.exists(): ... else: fetch
SkipOrFetch(d, path, episode, outcome, readable) ==
    IF path \in DOMAIN d
    THEN SkipExisting(d, path, episode)
    ELSE FetchNew(d, path, episode, outcome, readable)

\* The try block ends: an exception is caught, the directories are as mkdir
\* left them.
EndCall(r, ds) ==
    [disk |-> r.disk, dirs |-> ds, call |-> CatchException(r.call)]

\* download_episode(episode, organize_by_podcast): the disk and directories
\* afterwards and what the call did. outcome and readable are the
\* environment's: where the fetch ends, and whether a truncated file can
\* still be opened by mutagen.
DownloadEpisode(download_dir, episode, organize_by_podcast, d, ds, outcome, readable) ==
    IF Get(episode.url, EmptyStr) = EmptyStr
    THEN [disk |-> d, dirs |-> ds,
          call |-> [NoFetch EXCEPT !.mode = "real", !.failure = "no_url"]]
    ELSE EndCall(SkipOrFetch(d, FilePath(download_dir, episode, organize_by_podcast),
                             episode, outcome, readable),
                 IF organize_by_podcast
                 THEN ds \cup {PodcastDir(download_dir, episode)}
                 ELSE ds)

(***************************************************************************)
(* filter_episodes_by_year and main                                        *)
(***************************************************************************)
\* filter_episodes_by_year(episodes, year)
FilterByYear(eps, year) ==
    SelectSeq(eps, LAMBDA e :
        /\ Get(e.published, EmptyStr) # EmptyStr
        /\ YearOf(e.published[1]) = year)

\* The path the dry run prints for an episode.
DryRunPath(output_dir, episode, organize_by_podcast) ==
    LET url == Get(episode.url, EmptyStr)
        ext == IF url # EmptyStr /\ Contains(AfterLast(url, "/"), <<".">>)
               THEN <<".">> \o BeforeFirst(AfterLast(url, "."), "?")
               ELSE sMp3Ext
        filename == sanitize_filename(Get(episode.title, sUnknown)) \o ext
    IN  IF organize_by_podcast
        THEN output_dir \o <<"/">>
             \o sanitize_filename(Get(episode.podcastTitle, sUnknownPodcast))
             \o <<"/">> \o filename
        ELSE output_dir \o <<"/">> \o filename

sDefaultDir == <<".","/","d","o","w","n","l","o","a","d","s">>
sOutSlash == <<"o","u","t","/">>
sUrlMp3 == <<"h","t","t","p",":","/","/","x",".","i","o","/","e","p",".","m","p","3">>
sUrlM4a == <<"h","t","t","p",":","/","/","x",".","i","o","/","a",".","b",".","m","4","a","?","s","=","1">>
sTitleB == <<"A",":"," ","B","|","C","?">>
sPodB == <<"M","y","|","P","o","d">>

\* The episode records of the model: a short-titled MP3, an M4A whose title
\* and podcast name need sanitizing and that has no published date, and a
\* record with no url and no title.
MainEpisodes ==
    {[title |-> Some(sIntro), podcastTitle |-> Some(sTech),
      url |-> Some(sUrlMp3), published |-> Some(sPubZ)],
     [title |-> Some(sTitleB), podcastTitle |-> Some(sPodB),
      url |-> Some(sUrlM4a), published |-> Absent],
     [title |-> Absent, podcastTitle |-> Absent,
      url |-> Absent, published |-> Some(sPubZ)]}

\* The starred lists: up to MaxEpisodes records, each starred episode once.
EpisodeLists ==
    {l \in UNION {[1..n -> MainEpisodes] : n \in 0..MaxEpisodes} :
        \A i, j \in 1..Len(l) : l[i] = l[j] => i = j}

\* --output-dir: the default, a directory written with a trailing "/", and
\* the empty string (which Path() reads as the current directory).
OutputDirs == {sDefaultDir, sOutSlash, EmptyStr}

ArgsPool ==
    [dry_run : BOOLEAN, organize_by_podcast : BOOLEAN, save_metadata : BOOLEAN,
     show_all : BOOLEAN, year : {2023}, output_dir : OutputDirs]

NoEffects == [api |-> 0, gets |-> 0, fsw |-> {}, dl |-> 0, meta |-> 0]

\* The state of the batch variables while the set_metadata harness runs.
MainIdle ==
    /\ pc = "init" /\ run = 0
    /\ args = [dry_run |-> FALSE, organize_by_podcast |-> FALSE,
               save_metadata |-> FALSE, show_all |-> FALSE, year |-> 2023,
               output_dir |-> sDefaultDir]
    /\ starred = << >> /\ episodes = << >>
    /\ idx = 0 /\ successful = 0 /\ failed = 0 /\ attempts = << >>
    /\ disk = << >> /\ dirs = {}
    /\ effects = NoEffects /\ lastCall = NoFetch

\* The state of the set_metadata harness while the batch runs.
MetaIdle ==
    /\ mfile = [kind |-> "NONE", tags |-> NoTags]
    /\ mep = [title |-> Absent, podcastTitle |-> Absent, published |-> Absent]
    /\ mruns = 0 /\ mfirst = mfile /\ mprev = mfile
    /\ mlast = [saves |-> 0, added |-> << >>, msg |-> "none"]

Init ==
    /\ MetaIdle
    /\ pc = "start" /\ run = 1
    /\ args \in ArgsPool
    /\ starred \in EpisodeLists
    /\ episodes = << >>
    /\ idx = 0 /\ successful = 0 /\ failed = 0 /\ attempts = << >>
    /\ disk = << >>
    /\ dirs \in {ds \in {{}, {PathOf(args.output_dir)}} : <<".">> \in ds
                                     \/ PathOf(args.output_dir) # <<".">>}
    /\ effects = NoEffects /\ lastCall = NoFetch

\* Mutant: the dry-run flag is not looked at.
DryRun_Never(a) == FALSE

\* if args.dry_run:
DryRun(a) == a.dry_run

\* main, from the authentication probe to the construction of the downloader
MainStart ==
    /\ pc = "start"
    /\ \E auth_ok \in BOOLEAN, fetch_ok \in BOOLEAN :
        \E eps \in {IF ~fetch_ok THEN << >>
                     ELSE IF args.show_all THEN starred
                     ELSE FilterByYear(starred, args.year)},
           root \in {PathOf(args.output_dir)} :
            IF ~auth_ok
            THEN /\ pc' = "exit1"
                 /\ effects' = [effects EXCEPT !.api = 1]
                 /\ UNCHANGED <<episodes, idx, dirs>>
            ELSE IF eps = << >>
            THEN /\ pc' = "exit0"
                 /\ effects' = [effects EXCEPT !.api = 2]
                 /\ UNCHANGED <<episodes, idx, dirs>>
            ELSE IF args.save_metadata /\ root \notin dirs
            THEN /\ pc' = "crashed"
                 /\ effects' = [effects EXCEPT !.api = 2]
                 /\ UNCHANGED <<episodes, idx, dirs>>
            ELSE /\ pc' = "loop"
                 /\ episodes' = eps
                 /\ idx' = 1
                 /\ dirs' = dirs \cup {root}
                 /\ effects' =
                      [effects EXCEPT
                         !.api = 2,
                         !.fsw = (IF args.save_metadata THEN {"metadata_json"} ELSE {})
                                 \cup (IF root \notin dirs THEN {"mkdir"} ELSE {})]
    /\ UNCHANGED <<run, args, starred, successful, failed, attempts, disk, lastCall>>
    /\ UNCHANGED mvars

\* One iteration of the dry-run loop.
DryRunEpisode ==
    /\ pc = "loop" /\ idx <= Len(episodes)
    /\ DryRun(args)
    /\ LET episode == episodes[idx]
           has_url == Get(episode.url, EmptyStr) # EmptyStr
       IN  /\ lastCall' =
                [NoFetch EXCEPT
                   !.path = DryRunPath(args.output_dir, episode,
                                       args.organize_by_podcast),
                   !.mode = "dry", !.result = has_url]
           /\ successful' = IF has_url THEN successful + 1 ELSE successful
           /\ failed' = IF has_url THEN failed ELSE failed + 1
           /\ attempts' = Append(attempts, [idx |-> idx, ok |-> has_url])
    /\ idx' = idx + 1
    /\ UNCHANGED <<pc, run, args, starred, episodes, disk, dirs, effects>>
    /\ UNCHANGED mvars

\* One iteration of the download loop: download_episode and the counters.
RealEpisode ==
    /\ pc = "loop" /\ idx <= Len(episodes)
    /\ ~DryRun(args)
    /\ \E outcome \in FetchOutcomes, readable \in BOOLEAN :
        \E r \in {DownloadEpisode(PathOf(args.output_dir), episodes[idx],
                                   args.organize_by_podcast, disk, dirs,
                                   outcome, readable)} :
            /\ disk' = r.disk
            /\ dirs' = r.dirs
            /\ lastCall' = r.call
            /\ effects' =
                 [effects EXCEPT
                    !.gets = @ + r.call.gets,
                    !.dl = @ + 1,
                    !.meta = @ + r.call.metaCalls,
                    !.fsw = @ \cup (IF r.dirs # dirs THEN {"mkdir_podcast"} ELSE {})
                              \cup (IF r.call.wrote THEN {"audio_file"} ELSE {})
                              \cup (IF r.call.saves > 0 THEN {"tag_save"} ELSE {})]
            /\ IF r.call.raised
               THEN /\ pc' = "crashed"
                    /\ UNCHANGED <<idx, successful, failed, attempts>>
               ELSE /\ pc' = pc
                    /\ idx' = idx + 1
                    /\ successful' = IF r.call.result THEN successful + 1 ELSE successful
                    /\ failed' = IF r.call.result THEN failed ELSE failed + 1
                    /\ attempts' = Append(attempts, [idx |-> idx, ok |-> r.call.result])
    /\ UNCHANGED <<run, args, starred, episodes>>
    /\ UNCHANGED mvars

\* The final report: Successful, Failed, Total.
Report ==
    /\ pc = "loop" /\ idx > Len(episodes)
    /\ pc' = "done"
    /\ UNCHANGED <<run, args, starred, episodes, idx, successful, failed,
                   attempts, disk, dirs, effects, lastCall>>
    /\ UNCHANGED mvars

\* The script is started again, with the same arguments, on the same disk.
Restart ==
    /\ pc \in {"done", "exit0", "exit1", "crashed"}
    /\ run < MaxInvocations
    /\ pc' = "start"
    /\ run' = run + 1
    /\ episodes' = << >>
    /\ idx' = 0 /\ successful' = 0 /\ failed' = 0 /\ attempts' = << >>
    /\ effects' = NoEffects
    /\ lastCall' = NoFetch
    /\ UNCHANGED <<args, starred, disk, dirs>>
    /\ UNCHANGED mvars

Next == MainStart \/ DryRunEpisode \/ RealEpisode \/ Report \/ Restart

Spec == Init /\ [][Next]_vars

(***************************************************************************)
(* Harness for set_metadata: one file, one episode record, repeated calls. *)
(***************************************************************************)
RECURSIVE Pad(_, _)
Pad(s, n) == IF n = 0 THEN s ELSE Pad(s, n - 1) \o <<"!">>

TitleBases == {EmptyStr, sIntro, sSeasonFinale, sTechWeekly12}

\* Titles of 0, 1, 5, 6, 14 and 15 characters (and longer with a larger
\* MaxPad), with and without the podcast name in them.
TitlePool == {Pad(b, n) : b \in TitleBases, n \in 0..MaxPad}

Opt(S) == {Absent} \cup {Some(v) : v \in S}

EpisodePool ==
    [title : Opt(TitlePool),
     podcastTitle : Opt({sTech}),
     published : Opt({sPubZ, sPubBad})]

TagSets ==
    [Title : Opt(TitlePool),
     Artist : Opt({EmptyStr, sOther}),
     Album : Opt({EmptyStr, sOther}),
     Year : Opt({EmptyStr, sOther}),
     Genre : Opt({EmptyStr, sOther})]

Kinds == {"MP3", "MP4", "OTHER", "NONE"}

NoCall == [saves |-> 0, added |-> << >>, msg |-> "none"]

MetaInit ==
    /\ MainIdle
    /\ mfile \in [kind : Kinds, tags : TagSets]
    /\ mep \in EpisodePool
    /\ mruns = 0
    /\ mfirst = mfile
    /\ mprev = mfile
    /\ mlast = NoCall

\* self.set_metadata(filepath, episode)
RunSetMetadata ==
    /\ mruns < MaxRuns
    /\ \E r \in {SetMetadata(mfile, mep)} :
           /\ mfile' = r.file
           /\ mlast' = [saves |-> r.saves, added |-> r.added, msg |-> r.msg]
    /\ mprev' = mfile
    /\ mruns' = mruns + 1
    /\ UNCHANGED <<mep, mfirst>>
    /\ UNCHANGED dvars

MetaNext == RunSetMetadata

SpecMeta == MetaInit /\ [][MetaNext]_vars

(***************************************************************************)
(* Properties of set_metadata, checked under SpecMeta.                     *)
(***************************************************************************)
EpTitle == Get(mep.title, EmptyStr)
EpPodcast == Get(mep.podcastTitle, EmptyStr)
Handled == mfile.kind \in {"MP3", "MP4"}
TagNames == {"Title", "Artist", "Album", "Year", "Genre"}

\* The year the two published values of the harness stand for.
ExpectedYear ==
    IF mep.published = Some(sPubZ) THEN s2023 ELSE EmptyStr

\* C2: a second (and any later) set_metadata call on the same file with the
\* same episode leaves every tag as the first call left it and calls save()
\* zero times.
C2_Idempotent ==
    mruns >= 2 => mfile = mprev /\ mlast.saves = 0

\* The first call enhanced an existing short title and added tags; the second
\* call then ran on the result.
C2_Witness ==
    /\ mruns = 2
    /\ mfirst.kind = "MP3"
    /\ mfirst.tags.Title = Some(sIntro)
    /\ mfirst.tags.Genre = Absent
    /\ mprev.tags.Title # mfirst.tags.Title
    /\ mfile = mprev

\* C3: on every file, an Artist, Album, Year or Genre tag present before the
\* call has the same value after it, and no tag present before the call is
\* absent after it; on an MP3 or MP4 file, an absent Artist or Album becomes
\* the podcast title, an absent Year becomes the parsed year when there is
\* one (and stays absent when there is none), an absent Genre becomes
\* "Podcast".
C3_PresentTagsKept ==
    mruns >= 1 =>
        /\ \A n \in {"Artist", "Album", "Year", "Genre"} :
              mprev.tags[n] # Absent => mfile.tags[n] = mprev.tags[n]
        /\ \A n \in TagNames : mprev.tags[n] # Absent => mfile.tags[n] # Absent
        /\ Handled =>
            /\ mprev.tags.Artist = Absent => mfile.tags.Artist = Some(EpPodcast)
            /\ mprev.tags.Album = Absent => mfile.tags.Album = Some(EpPodcast)
            /\ mprev.tags.Year = Absent =>
                  mfile.tags.Year =
                      IF ExpectedYear # EmptyStr THEN Some(ExpectedYear) ELSE Absent
            /\ mprev.tags.Genre = Absent => mfile.tags.Genre = Some(sPodcast)

\* One call that kept a set Artist and an empty Year, and filled in the absent
\* Album and Genre.
C3_Witness ==
    /\ mruns = 1
    /\ mfile.kind = "MP4"
    /\ mprev.tags.Artist = Some(sOther) /\ mfile.tags.Artist = Some(sOther)
    /\ mprev.tags.Year = Some(EmptyStr) /\ mfile.tags.Year = Some(EmptyStr)
    /\ mprev.tags.Album = Absent /\ mfile.tags.Album = Some(sTech)
    /\ mprev.tags.Genre = Absent /\ mfile.tags.Genre = Some(sPodcast)

\* C4: a Title tag of 15 or more characters, or one that contains the
\* podcast title case-insensitively, is the same after every set_metadata
\* call, whatever the episode title.
C4_LongOrNamedTitleKept ==
    \A f \in {mfirst, mprev} :
        (/\ mruns >= 1
         /\ f.tags.Title # Absent
         /\ \/ Len(f.tags.Title[1]) >= 15
            \/ Contains(Lower(f.tags.Title[1]), Lower(EpPodcast)))
        => mfile.tags.Title = f.tags.Title

\* Two calls on a file whose 14-character title names the podcast in another
\* case, with a short episode title that would have been enhanced; the calls
\* did add other tags.
C4_Witness ==
    /\ mruns = 2
    /\ mfirst.kind = "MP3"
    /\ mfirst.tags.Title = Some(sTechWeekly12)
    /\ mep.title = Some(sIntro)
    /\ mep.podcastTitle = Some(sTech)
    /\ mfirst.tags.Artist = Absent
    /\ mfile.tags.Artist = Some(sTech)
    /\ mfile.tags.Title = Some(sTechWeekly12)

\* needsEnhancement as the specification words it.
SpecNeedsEnhancement(t, p) == Len(t) < 15 /\ ~Contains(Lower(t), Lower(p))

EpisodeComputedTitle ==
    IF EpTitle # EmptyStr /\ EpPodcast # EmptyStr
       /\ SpecNeedsEnhancement(EpTitle, EpPodcast)
    THEN EpPodcast \o sSep \o EpTitle
    ELSE EpTitle

C6_AsClaimed ==
    (/\ mruns >= 1
     /\ mfile.kind \in {"MP3", "MP4"}
     /\ mprev.tags.Title = Absent)
    => mfile.tags.Title =
          Some(IF SpecNeedsEnhancement(EpTitle, EpPodcast)
               THEN EpPodcast \o sSep \o EpTitle
               ELSE EpTitle)

\* C6: on an MP3 or MP4 file with no Title tag, Title becomes
\* "{podcastTitle} - {title}" iff title is non-empty, shorter than 15
\* characters and does not contain podcastTitle case-insensitively;
\* otherwise it becomes title unchanged, so an empty or absent title gives
\* an empty Title tag.
C6_AbsentTitleSet ==
    (/\ mruns >= 1
     /\ mfile.kind \in {"MP3", "MP4"}
     /\ mprev.tags.Title = Absent)
    => mfile.tags.Title =
          Some(IF EpTitle # EmptyStr /\ SpecNeedsEnhancement(EpTitle, EpPodcast)
               THEN EpPodcast \o sSep \o EpTitle
               ELSE EpTitle)

\* "Intro" with podcast "tech" gives "tech - Intro".
C6_Witness ==
    /\ mruns = 1
    /\ mfile.kind = "MP4"
    /\ mprev.tags.Title = Absent
    /\ mep.title = Some(sIntro)
    /\ mep.podcastTitle = Some(sTech)
    /\ mfile.tags.Title = Some(<<"t","e","c","h"," ","-"," ","I","n","t","r","o">>)
    /\ mlast.added[1] = "Title"

\* C7: one call saves exactly once when it added or changed a tag and not
\* at all when it changed none; when it changed none the file is as before
\* and, the file having been opened, the message is that all tags exist.
C7_SaveOnceIffChanged ==
    mruns >= 1 =>
        /\ mlast.saves \in {0, 1}
        /\ mlast.saves = 1 <=> mfile.tags # mprev.tags
        /\ mlast.saves = 1 => mlast.msg = "added"
        /\ (mlast.saves = 0 /\ mfile.kind # "NONE") =>
              mfile = mprev /\ mlast.msg = "exist"

\* A first call that saved once and a second call that saved nothing and
\* reported that all tags exist.
C7_Witness ==
    /\ mruns = 2
    /\ mfile.kind = "MP3"
    /\ mprev # mfirst
    /\ mfile = mprev
    /\ mlast.saves = 0
    /\ mlast.msg = "exist"

(***************************************************************************)
(* Properties of download_episode and main, checked under Spec.            *)
(***************************************************************************)
\* C1: no call of download_episode skips the fetch and returns success on a
\* file that an earlier, failed download left truncated at that path.
C1_NoPartialTakenAsDownloaded ==
    ~(lastCall.mode = "real" /\ lastCall.existed /\ lastCall.result
      /\ lastCall.onPartial)

\* C8: a call of download_episode that finds the destination file issues no
\* GET, writes no audio bytes, runs set_metadata and returns success; every
\* successful call ran set_metadata exactly once, on a file that was in
\* place (found, or written in full), and that file is on disk afterwards.
C8_SkipStillTags ==
    lastCall.mode = "real" =>
        /\ lastCall.existed =>
              /\ lastCall.gets = 0 /\ ~lastCall.wrote
              /\ lastCall.metaCalls = 1 /\ lastCall.result
              /\ disk[lastCall.path].complete = ~lastCall.onPartial
        /\ lastCall.result =>
              /\ lastCall.metaCalls = 1 /\ lastCall.metaSawFile
              /\ lastCall.path \in DOMAIN disk
        /\ lastCall.metaCalls <= 1
        /\ lastCall.metaCalls = 1 => lastCall.result

\* A second invocation found the file of the first, fetched nothing and ran
\* set_metadata on it.
C8_Witness ==
    /\ run = 2
    /\ lastCall.mode = "real"
    /\ lastCall.existed /\ ~lastCall.onPartial
    /\ lastCall.gets = 0 /\ lastCall.metaCalls = 1 /\ lastCall.result
    /\ effects.gets = 0 /\ effects.meta >= 1

Count(seq, ok) == Cardinality({k \in 1..Len(seq) : seq[k].ok = ok})

\* The counting part of C9: once the loop has started, the run is in the
\* loop or at the final report; the episodes processed so far are exactly
\* the first idx - 1 of the list, in order, each counted once as successful
\* or failed; at the final report every episode has been processed and
\* successful + failed is the length of the list.
BatchCounts ==
    /\ episodes # << >> => pc \in {"loop", "done"}
    /\ pc \in {"loop", "done"} =>
          /\ Len(attempts) = idx - 1
          /\ \A k \in 1..Len(attempts) : attempts[k].idx = k
          /\ successful = Count(attempts, TRUE)
          /\ failed = Count(attempts, FALSE)
          /\ successful + failed = Len(attempts)
    /\ pc = "done" =>
          /\ Len(attempts) = Len(episodes)
          /\ successful + failed = Len(episodes)

\* A step taken in the loop moves on to the next episode, or is the final
\* report once every episode has been processed; nothing else ends the loop.
LoopAdvances ==
    pc = "loop" =>
        \/ pc' = "loop" /\ idx <= Len(episodes) /\ idx' = idx + 1
               /\ Len(attempts') = Len(attempts) + 1
        \/ pc' = "done" /\ idx = Len(episodes) + 1

\* C9: no failure of an episode stops the batch: the counting above holds in
\* every state, and every step of the loop, whatever the episode's outcome,
\* goes on to the next episode or, after the last one, to the final report.
C9_BatchNeverStops ==
    /\ []BatchCounts
    /\ [][LoopAdvances]_vars

\* A real run whose first episode failed in mid-stream and whose second
\* episode was then downloaded, at the final report.
C9_Witness ==
    /\ pc = "done"
    /\ ~args.dry_run
    /\ Len(episodes) = 2
    /\ attempts = <<[idx |-> 1, ok |-> FALSE], [idx |-> 2, ok |-> TRUE]>>
    /\ successful = 1 /\ failed = 1
    /\ lastCall.gets = 1
    /\ \E p \in DOMAIN disk : ~disk[p].complete

\* C10 as claimed: a dry run makes no network call and no filesystem write
\* and calls neither download_episode nor set_metadata.
C10_AsClaimed ==
    args.dry_run =>
        /\ effects.api = 0 /\ effects.gets = 0
        /\ effects.fsw = {}
        /\ effects.dl = 0 /\ effects.meta = 0

\* C10: a dry run calls neither download_episode nor set_metadata, issues no
\* media GET and creates or changes no audio file; its network calls are the
\* API requests of the authentication probe and the episode fetch, and its
\* filesystem writes are the creation of the output directory and, with
\* --save-metadata, the metadata JSON.
C10_DryRunTouchesNoAudio ==
    args.dry_run =>
        /\ effects.dl = 0 /\ effects.meta = 0 /\ effects.gets = 0
        /\ disk = << >>
        /\ lastCall.mode \in {"none", "dry"}
        /\ effects.api <= 2
        /\ effects.fsw \subseteq {"mkdir", "metadata_json"}
        /\ dirs \subseteq {PathOf(args.output_dir)}

\* A dry run at its final report, having listed one episode with a url and
\* one without, and having created the output directory.
C10_Witness ==
    /\ args.dry_run
    /\ pc = "done"
    /\ successful = 1 /\ failed = 1
    /\ effects.api = 2
    /\ effects.fsw = {"mkdir"}
    /\ lastCall.mode = "dry"

\* The dry run has just listed the path of an episode that has a url, the
\* only episodes for which download_episode computes a path.
DryRunListed ==
    /\ lastCall.mode = "dry"
    /\ idx > 1 /\ idx - 1 <= Len(episodes)
    /\ Get(episodes[idx - 1].url, EmptyStr) # EmptyStr

\* filepath of download_episode for the episode the dry run has just listed
RealPathOfListed ==
    FilePath(PathOf(args.output_dir), episodes[idx - 1], args.organize_by_podcast)

\* C11: for every episode, base directory and organize-by-podcast setting,
\* the path the dry run lists names the same file as the path
\* download_episode uses for that episode: read as a path, the listed text is
\* the real path.
C11_DryRunPathIsRealPath ==
    DryRunListed => PathOf(lastCall.path) = RealPathOfListed

\* Where the two computations do agree: whenever --output-dir is not the
\* empty string.
C11_SamePathUnderNamedDir ==
    (DryRunListed /\ args.output_dir # EmptyStr)
        => PathOf(lastCall.path) = RealPathOfListed

\* The dry run under --output-dir "" lists an absolute path for an episode
\* that download_episode places in the current directory.
C11_EmptyDirListed ==
    /\ DryRunListed
    /\ args.output_dir = EmptyStr
    /\ Head(lastCall.path) = "/"
    /\ Head(RealPathOfListed) # "/"

====
